---- MODULE Spec2Model ----
(***************************************************************************)
(* Model of src/sort.rs: the comparator built by create_sorter from the    *)
(* flags (directory_order, sort_by, sort_order), and one call of that      *)
(* comparator on two Meta entries.                                         *)
(***************************************************************************)
EXTENDS Integers, Sequences, FiniteSets, TLC

VARIABLES
    flags,    \* the Flags given to create_sorter (sort.rs:7)
    sorters,  \* the Vec<(SortOrder, Sorter)> the closure captures (sort.rs:8-23)
    a,        \* first Meta handed to the closure (sort.rs:25)
    b,        \* second Meta handed to the closure (sort.rs:25)
    result,   \* the Ordering the closure returned, "None" before the call
    pc        \* "start", "built" (create_sorter returned), "done" (closure returned)

vars == <<flags, sorters, a, b, result, pc>>

----------------------------------------------------------------------------
(* Bounds of the model *)

MaxNameLen == 1

MaxChar == 2

MaxSize == 1

MaxDate == 1

----------------------------------------------------------------------------
(* Data: Meta, FileType, Flags, Ordering *)

Ordering == {"Less", "Equal", "Greater"}

File == [tag |-> "File", is_dir |-> FALSE]

Directory == [tag |-> "Directory", is_dir |-> TRUE]

SymLink(d) == [tag |-> "SymLink", is_dir |-> d]

FileType == {File, Directory, SymLink(TRUE), SymLink(FALSE)}

Names == UNION {[1..n -> 1..MaxChar] : n \in 1..MaxNameLen}

Meta == [name : Names, size : 0..MaxSize, date : 0..MaxDate, file_type : FileType]

DirOrderFlag == {"First", "Last", "None"}

SortFlag == {"Name", "Size", "Time"}

SortOrder == {"Default", "Reverse"}

Flags == [directory_order : DirOrderFlag, sort_by : SortFlag, sort_order : SortOrder]

----------------------------------------------------------------------------
(* std::cmp: Ord::cmp on integers and strings, Ordering::reverse, then *)

int_cmp(x, y) == IF x < y THEN "Less" ELSE IF x > y THEN "Greater" ELSE "Equal"

RECURSIVE str_cmp(_, _)
str_cmp(s, t) ==
    IF s = <<>> THEN (IF t = <<>> THEN "Equal" ELSE "Less")
    ELSE IF t = <<>> THEN "Greater"
    ELSE IF Head(s) < Head(t) THEN "Less"
    ELSE IF Head(s) > Head(t) THEN "Greater"
    ELSE str_cmp(Tail(s), Tail(t))

reverse(o) == IF o = "Less" THEN "Greater" ELSE IF o = "Greater" THEN "Less" ELSE "Equal"

then(o1, o2) == IF o1 = "Equal" THEN o2 ELSE o1

----------------------------------------------------------------------------
(* The sub-comparators *)

with_dirs_first_no_symlink(x, y) ==
    LET ft == x.file_type
        gt == y.file_type
    IN  IF ft.tag = "Directory" /\ gt.tag = "Directory" THEN "Equal"
        ELSE IF ft.tag = "Directory" THEN "Less"
        ELSE IF gt.tag = "Directory" THEN "Greater"
        ELSE "Equal"

with_dirs_first(x, y) ==
    LET ft == x.file_type
        gt == y.file_type
    IN  IF ft.tag = "Directory" /\ gt.tag = "Directory" THEN "Equal"
        ELSE IF ft.tag = "Directory" /\ gt = SymLink(TRUE) THEN "Equal"
        ELSE IF ft = SymLink(TRUE) /\ gt.tag = "Directory" THEN "Equal"
        ELSE IF ft.tag = "Directory" THEN "Less"
        ELSE IF gt.tag = "Directory" THEN "Greater"
        ELSE IF ft = SymLink(TRUE) THEN "Less"
        ELSE IF gt = SymLink(TRUE) THEN "Greater"
        ELSE "Equal"

by_size(x, y) == int_cmp(y.size, x.size)

by_name(x, y) == str_cmp(x.name, y.name)

by_date(x, y) == then(int_cmp(y.date, x.date), str_cmp(x.name, y.name))

call(f, x, y) ==
    CASE f = "with_dirs_first" -> with_dirs_first(x, y)
      [] f = "by_name" -> by_name(x, y)
      [] f = "by_size" -> by_size(x, y)
      [] f = "by_date" -> by_date(x, y)

----------------------------------------------------------------------------
(* create_sorter: the list of (direction, sorter) pairs and the closure *)

other_sort(f) ==
    CASE f.sort_by = "Name" -> "by_name"
      [] f.sort_by = "Size" -> "by_size"
      [] f.sort_by = "Time" -> "by_date"

dir_sorters(f) ==
    CASE f.directory_order = "First" -> <<[direction |-> "Default", sorter |-> "with_dirs_first"]>>
      [] f.directory_order = "Last" -> <<[direction |-> "Reverse", sorter |-> "with_dirs_first"]>>
      [] f.directory_order = "None" -> <<>>

create_sorter_last_unreversed(f) ==
    (IF f.directory_order = "None" THEN <<>>
     ELSE <<[direction |-> "Default", sorter |-> "with_dirs_first"]>>)
    \o <<[direction |-> f.sort_order, sorter |-> other_sort(f)]>>

create_sorter_always_groups(f) ==
    <<[direction |-> "Default", sorter |-> "with_dirs_first"]>>
    \o <<[direction |-> f.sort_order, sorter |-> other_sort(f)]>>

create_sorter(f) ==
    dir_sorters(f) \o <<[direction |-> f.sort_order, sorter |-> other_sort(f)]>>

RECURSIVE sorter(_, _, _)
sorter(ss, x, y) ==
    IF ss = <<>> THEN "Equal"
    ELSE LET ordering == call(Head(ss).sorter, x, y)
         IN  IF ordering = "Equal" THEN sorter(Tail(ss), x, y)
             ELSE IF Head(ss).direction = "Reverse" THEN reverse(ordering)
             ELSE ordering

----------------------------------------------------------------------------
(* The state machine: build the comparator, then call it on two entries.   *)
(* Before the call a and b hold a placeholder and result is "None".        *)

Init ==
    /\ flags \in Flags
    /\ sorters = <<>>
    /\ a = [name |-> <<>>, size |-> 0, date |-> 0, file_type |-> File]
    /\ b = [name |-> <<>>, size |-> 0, date |-> 0, file_type |-> File]
    /\ result = "None"
    /\ pc = "start"

CreateSorter ==
    /\ pc = "start"
    /\ sorters' = create_sorter(flags)
    /\ pc' = "built"
    /\ UNCHANGED <<flags, a, b, result>>

Compare ==
    /\ pc = "built"
    /\ \E x \in Meta, y \in Meta :
          /\ a' = x
          /\ b' = y
          /\ result' = sorter(sorters, x, y)
    /\ pc' = "done"
    /\ UNCHANGED <<flags, sorters>>

Next == CreateSorter \/ Compare

Spec == Init /\ [][Next]_vars

----------------------------------------------------------------------------
(* Vocabulary of the properties *)

DirLike(m) == m.file_type = Directory \/ m.file_type = SymLink(TRUE)

NotSeparated == flags.directory_order = "None" \/ (DirLike(a) <=> DirLike(b))

Called == pc = "done"

WithoutGrouping == [flags EXCEPT !.directory_order = "None"]

OtherDirection ==
    [flags EXCEPT !.sort_order = IF flags.sort_order = "Default" THEN "Reverse" ELSE "Default"]

AttributeResult ==
    CASE flags.sort_by = "Name" -> by_name(a, b)
      [] flags.sort_by = "Size" -> by_size(a, b)
      [] flags.sort_by = "Time" -> by_date(a, b)

----------------------------------------------------------------------------
(* C1: with directory_order = First a directory-like entry compares Less   *)
(* than a non-directory-like entry, and the latter Greater than the        *)
(* former, for every sort key, direction, name, size and date.             *)
C1_DirsFirst ==
    (Called /\ flags.directory_order = "First") =>
        /\ (DirLike(a) /\ ~DirLike(b)) => result = "Less"
        /\ (~DirLike(a) /\ DirLike(b)) => result = "Greater"

C1_Witness ==
    /\ Called
    /\ flags.directory_order = "First"
    /\ flags.sort_by = "Name"
    /\ flags.sort_order = "Reverse"
    /\ a.file_type = SymLink(TRUE)
    /\ b.file_type = File
    /\ str_cmp(a.name, b.name) = "Less"
    /\ result = "Less"

(* C2: with directory_order = Last a directory-like entry compares Greater *)
(* than a non-directory-like entry, and the latter Less than the former,   *)
(* for every sort key, direction, name, size and date.                     *)
C2_DirsLast ==
    (Called /\ flags.directory_order = "Last") =>
        /\ (DirLike(a) /\ ~DirLike(b)) => result = "Greater"
        /\ (~DirLike(a) /\ DirLike(b)) => result = "Less"

C2_Witness ==
    /\ Called
    /\ flags.directory_order = "Last"
    /\ flags.sort_by = "Size"
    /\ flags.sort_order = "Default"
    /\ a.file_type = Directory
    /\ b.file_type = SymLink(FALSE)
    /\ a.size > b.size
    /\ result = "Greater"

(* C3: the comparator is antisymmetric: compare(a, b) = Less iff           *)
(* compare(b, a) = Greater, and compare(a, b) = Equal iff                  *)
(* compare(b, a) = Equal, for every configuration and pair of entries.     *)
C3_Antisymmetry ==
    Called =>
        /\ result = "Less" <=> sorter(sorters, b, a) = "Greater"
        /\ result = "Equal" <=> sorter(sorters, b, a) = "Equal"

(* C4: the comparator is a total order: two entries whose names differ     *)
(* never compare Equal, whatever the sort key, direction and directory     *)
(* order.                                                                  *)
C4_TotalOrder == (Called /\ a.name # b.name) => result # "Equal"

(* C5: for a pair the grouping stage does not separate, the result under   *)
(* one sort direction is the reversal of the result under the other        *)
(* direction, for every sort key.                                          *)
C5_ReverseSymmetry ==
    (Called /\ NotSeparated) =>
        result = reverse(sorter(create_sorter(OtherDirection), a, b))

(* C6: with sort key Time and direction Default, for a pair the grouping   *)
(* stage does not separate, the entry with the more recent date compares   *)
(* Less, and on equal dates the result is the comparison of the names.     *)
C6_TimeDefault ==
    (Called /\ flags.sort_by = "Time" /\ flags.sort_order = "Default" /\ NotSeparated) =>
        /\ a.date > b.date => result = "Less"
        /\ a.date < b.date => result = "Greater"
        /\ a.date = b.date => result = str_cmp(a.name, b.name)

(* C7: with sort key Size, for a pair the grouping stage does not separate *)
(* and with different sizes, the larger entry compares Less under          *)
(* direction Default and Greater under direction Reverse.                  *)
C7_SizeOrder ==
    (Called /\ flags.sort_by = "Size" /\ NotSeparated) =>
        /\ a.size > b.size =>
              result = (IF flags.sort_order = "Default" THEN "Less" ELSE "Greater")
        /\ a.size < b.size =>
              result = (IF flags.sort_order = "Default" THEN "Greater" ELSE "Less")

(* C8: with directory_order = None the result does not depend on the       *)
(* file_type of either entry, and it equals the result of the selected     *)
(* attribute comparator with the sort direction applied.                   *)
C8_NoGrouping ==
    (Called /\ flags.directory_order = "None") =>
        /\ result = (IF flags.sort_order = "Reverse" THEN reverse(AttributeResult)
                     ELSE AttributeResult)
        /\ \A ta \in FileType, tb \in FileType :
              sorter(sorters, [a EXCEPT !.file_type = ta], [b EXCEPT !.file_type = tb]) = result

C8_Witness ==
    /\ Called
    /\ flags.directory_order = "None"
    /\ flags.sort_by = "Name"
    /\ flags.sort_order = "Default"
    /\ a.file_type = File
    /\ b.file_type = Directory
    /\ str_cmp(a.name, b.name) = "Less"
    /\ result = "Less"

(* C9: with directory_order First or Last, for two entries of the same     *)
(* class (both directory-like or both not) the grouping comparator yields  *)
(* Equal and the result is the one obtained with directory_order = None    *)
(* for the same sort key and direction.                                    *)
C9_GroupingEqualWithinClass ==
    (Called /\ flags.directory_order # "None" /\ (DirLike(a) <=> DirLike(b))) =>
        /\ with_dirs_first(a, b) = "Equal"
        /\ result = sorter(create_sorter(WithoutGrouping), a, b)

(* C10: the comparator is transitive: Less followed by Less gives Less,    *)
(* Equal followed by Equal gives Equal, for every configuration and all    *)
(* entries, mixed file types included.                                     *)
C10_Transitivity ==
    Called =>
        \A c \in Meta :
            /\ (result = "Less" /\ sorter(sorters, b, c) = "Less")
                  => sorter(sorters, a, c) = "Less"
            /\ (result = "Equal" /\ sorter(sorters, b, c) = "Equal")
                  => sorter(sorters, a, c) = "Equal"

====
